---- MODULE Spec2Model ----
(***************************************************************************)
(* Snapshot capture of factorioprints_monitor: take_snapshot               *)
(* (monitoring/utils.py), the comment fetcher it drives                    *)
(* (monitoring/comments_scraper.py), the listing scraper                   *)
(* (monitoring/blueprints_scraper.py), the four tables of                  *)
(* monitoring/models.py and the delete_snapshot command.                   *)
(*                                                                         *)
(* A capture is a process: it reads the clock, scrapes the listing, runs   *)
(* one fetch task per listed blueprint under an asyncio.Semaphore, and     *)
(* writes everything inside one transaction.atomic() block.  The database  *)
(* is modelled as committed tables plus the pending writes of the one open *)
(* write transaction (a single writer at a time, writes invisible to       *)
(* readers until COMMIT, discarded by ROLLBACK).                           *)
(***************************************************************************)
EXTENDS Integers, Sequences, FiniteSets, TLC

\* ------------------------------------------------------------------ bounds

\* Instants the clock can show: 1..MaxClock.
MaxClock == 2
\* Longest listing scrape_user_blueprints returns under SpecRun.
MaxItems == 2
\* Most posts in one Disqus thread.
MaxPosts == 2
\* Largest cursor.total a thread reports.
MaxTotal == 1
\* Runs of the delete_snapshot command.
MaxDeletes == 1
\* Longest listing under SpecFetch (one capture's fetch phase).
MaxFetchItems == 7
\* Longest listing, and largest SNAPSHOT_MAX_CONCURRENCY, under SpecCap.
MaxCapItems == 4
MaxCap == 3

\* utils.py: MAX_INSTANCES = getattr(settings, "SNAPSHOT_MAX_CONCURRENCY", 6)
MAX_INSTANCES == 6

\* ------------------------------------------------------------ input domains

Procs == {"p1", "p2", "p3"}
\* The captures that run at the same time in Spec.
SharedProcs == {"p1", "p2"}
Users == {"u1", "u2"}
Urls == {"a", "b"}
Names == {"n1", "n2"}
Favs == {1}
CommentIds == {"c1"}
NoProc == "none"

SeqsUpTo(S, n) == UNION {[1..k -> S] : k \in 0..n}

\* One card of the user page, as extract_blueprints returns it.
Cards == [url : Urls, name : Names, favorites : Favs]

\* A raw Disqus post: a record _normalize raises on, one without "id", or one
\* with an id.
RawPosts == {"malformed", "noid"} \cup CommentIds

\* What the blueprint page does when get_comments_async visits it.
Pages ==
    [kind : {"goto_timeout", "scroll_timeout", "no_iframe", "extract_failed"}]
    \cup [kind : {"ok"}, total : 0..MaxTotal, posts : SeqsUpTo(RawPosts, MaxPosts)]
    \* cursor.total is taken from the thread data as it is, whatever its sign
    \cup [kind : {"ok"}, total : {-1}, posts : {<<>>}]

\* -------------------------------------------------------- comments_scraper

EmptyThread == [total_comments |-> 0, comments |-> <<>>]

\* _normalize: "id" : str(post.get("id", "")); a malformed record raises.
_normalize(post) == IF post = "noid" THEN "" ELSE post

\* The loop of get_comments_async over response.posts: a record _normalize
\* raises on is skipped, the others are appended in order.
RECURSIVE NormalizePosts(_)
NormalizePosts(posts) ==
    IF posts = <<>> THEN <<>>
    ELSE IF Head(posts) = "malformed" THEN NormalizePosts(Tail(posts))
    ELSE <<_normalize(Head(posts))>> \o NormalizePosts(Tail(posts))

\* get_comments_async: page.goto is outside every try block, so its timeout
\* leaves the coroutine as an exception; the scroll timeout, the missing iframe
\* and the failed extraction return the empty thread.
get_comments_async(page) ==
    CASE page.kind = "goto_timeout" ->
            [raised |-> TRUE, degraded |-> FALSE, data |-> EmptyThread]
      [] page.kind \in {"scroll_timeout", "no_iframe", "extract_failed"} ->
            [raised |-> FALSE, degraded |-> TRUE, data |-> EmptyThread]
      [] OTHER ->
            [raised |-> FALSE, degraded |-> FALSE,
             data |-> [total_comments |-> page.total,
                       comments |-> NormalizePosts(page.posts)]]

\* ------------------------------------------------------------------- state

VARIABLES
    clock,              \* datetime.now(timezone.utc)
    pc,                 \* each capture's position in take_snapshot
    err,                \* the exception take_snapshot raised, "" if none
    user_url,           \* take_snapshot's argument
    snapshot_ts,        \* take_snapshot's snapshot_ts
    blueprints,         \* take_snapshot's blueprints (the listing)
    task,               \* the state of each fetch(bp) task of gather
    sem,                \* the value of asyncio.Semaphore(MAX_INSTANCES)
    comments_data,      \* results of _run: url -> thread
    idx,                \* position of "for bp in blueprints" in the transaction
    writer,             \* the capture holding the open write transaction
    tx,                 \* its pending rows, per table
    Blueprint,          \* committed rows of the four tables, in insertion order
    UserSnapshot,
    BlueprintSnapshot,
    CommentSnapshot,
    deleted,            \* what the last delete_snapshot run reported
    ndel                \* delete_snapshot runs so far

locals == <<pc, err, user_url, snapshot_ts, blueprints, task, sem, comments_data, idx>>
tables == <<Blueprint, UserSnapshot, BlueprintSnapshot, CommentSnapshot>>
vars == <<clock, locals, writer, tx, tables, deleted, ndel>>

NoTx == [Blueprint |-> <<>>, UserSnapshot |-> <<>>,
         BlueprintSnapshot |-> <<>>, CommentSnapshot |-> <<>>]
NoData == [u \in {} |-> EmptyThread]
NoDelete == [status |-> "none", snapshot_ts |-> 0,
             comments |-> 0, blueprints |-> 0, users |-> 0]

Init ==
    /\ clock = 1
    /\ pc = [p \in Procs |-> "idle"]
    /\ err = [p \in Procs |-> ""]
    /\ user_url = [p \in Procs |-> ""]
    /\ snapshot_ts = [p \in Procs |-> 0]
    /\ blueprints = [p \in Procs |-> <<>>]
    /\ task = [p \in Procs |-> <<>>]
    /\ sem = [p \in Procs |-> 0]
    /\ comments_data = [p \in Procs |-> NoData]
    /\ idx = [p \in Procs |-> 0]
    /\ writer = NoProc
    /\ tx = NoTx
    /\ Blueprint = <<>>
    /\ UserSnapshot = <<>>
    /\ BlueprintSnapshot = <<>>
    /\ CommentSnapshot = <<>>
    /\ deleted = NoDelete
    /\ ndel = 0

\* Time passes.
Tick ==
    /\ clock < MaxClock
    /\ clock' = clock + 1
    /\ UNCHANGED <<locals, writer, tx, tables, deleted, ndel>>

\* ------------------------------------------------------------ take_snapshot

\* take_snapshot is left, by return (state "done") or by the exception e
\* (state "failed"): its frame is gone; idx keeps how far the loop had got.
Leave(p, state, e) ==
    /\ pc' = [pc EXCEPT ![p] = state]
    /\ err' = [err EXCEPT ![p] = e]
    /\ blueprints' = [blueprints EXCEPT ![p] = <<>>]
    /\ task' = [task EXCEPT ![p] = <<>>]
    /\ sem' = [sem EXCEPT ![p] = 0]
    /\ comments_data' = [comments_data EXCEPT ![p] = NoData]
    /\ UNCHANGED <<user_url, snapshot_ts, idx>>

\* A faulty variant: a capture does not start while another capture of the
\* same user is running (a lock per user).
Start_single_flight(p, u) ==
    /\ pc[p] = "idle"
    /\ IF p = "p1" THEN u = "u1" ELSE pc["p1"] # "idle"
    /\ \A q \in Procs \ {p} :
        pc[q] \in {"idle", "done", "failed"} \/ user_url[q] # u
    /\ pc' = [pc EXCEPT ![p] = "scrape"]
    /\ user_url' = [user_url EXCEPT ![p] = u]
    /\ snapshot_ts' = [snapshot_ts EXCEPT ![p] = clock]
    /\ UNCHANGED <<clock, err, blueprints, task, sem, comments_data, idx,
                   writer, tx, tables, deleted, ndel>>

\* snapshot_ts = datetime.now(timezone.utc), then the listing call begins.
\* Capture slots are taken in order and the first capture is of user "u1":
\* slots are interchangeable, and so are users.
Start(p, u) ==
    /\ pc[p] = "idle"
    /\ IF p = "p1" THEN u = "u1" ELSE pc["p1"] # "idle"
    /\ pc' = [pc EXCEPT ![p] = "scrape"]
    /\ user_url' = [user_url EXCEPT ![p] = u]
    /\ snapshot_ts' = [snapshot_ts EXCEPT ![p] = clock]
    /\ UNCHANGED <<clock, err, blueprints, task, sem, comments_data, idx,
                   writer, tx, tables, deleted, ndel>>

\* scrape_user_blueprints returns the cards of the page (none, when the page
\* shows none); _run then creates the semaphore and gather one task per card.
\* max_instances is the value MAX_INSTANCES got from the settings when the
\* module was imported (SNAPSHOT_MAX_CONCURRENCY, 6 when it is not set).
ScrapeReturnCap(p, data, max_instances) ==
    /\ pc[p] = "scrape"
    /\ pc' = [pc EXCEPT ![p] = "fetch"]
    /\ blueprints' = [blueprints EXCEPT ![p] = data]
    /\ task' = [task EXCEPT ![p] = [i \in 1..Len(data) |-> "queued"]]
    /\ sem' = [sem EXCEPT ![p] = max_instances]
    /\ comments_data' = [comments_data EXCEPT ![p] = NoData]
    /\ UNCHANGED <<clock, err, user_url, snapshot_ts, idx,
                   writer, tx, tables, deleted, ndel>>

\* The settings do not set SNAPSHOT_MAX_CONCURRENCY.
ScrapeReturn(p, data) == ScrapeReturnCap(p, data, MAX_INSTANCES)

\* scrape_user_blueprints raises (page.goto times out, int() or a missing
\* node fails in extract_blueprints): take_snapshot has no handler.
ScrapeRaise(p) ==
    /\ pc[p] = "scrape"
    /\ Leave(p, "failed", "ScrapeError")
    /\ UNCHANGED <<clock, writer, tx, tables, deleted, ndel>>

\* ------------------------------------------ _fetch_all_comments_concurrent

InFlight(p) == {i \in 1..Len(task[p]) : task[p][i] = "running"}
Queued(p) == {i \in 1..Len(task[p]) : task[p][i] = "queued"}

\* Semaphore.acquire: a task passes while the value is positive; waiters are
\* woken in the order they arrived, which is the order gather created them.
\* A faulty variant: the tasks start without waiting for a free slot.
CanAcquire_no_cap(p, i) == \A j \in Queued(p) : i <= j
\* A faulty variant: a task starts only when no other is running, whatever
\* the value of the semaphore.
CanAcquire_exclusive(p, i) ==
    /\ sem[p] > 0
    /\ InFlight(p) = {}
    /\ \A j \in Queued(p) : i <= j
CanAcquire(p, i) ==
    /\ sem[p] > 0
    /\ \A j \in Queued(p) : i <= j

\* "async with sem": fetch(bp) takes a slot and awaits get_comments_async.
Acquire(p, i) ==
    /\ pc[p] = "fetch"
    /\ i \in Queued(p)
    /\ CanAcquire(p, i)
    /\ task' = [task EXCEPT ![p][i] = "running"]
    /\ sem' = [sem EXCEPT ![p] = @ - 1]
    /\ UNCHANGED <<clock, pc, err, user_url, snapshot_ts, blueprints,
                   comments_data, idx, writer, tx, tables, deleted, ndel>>

\* results[url] = data
\* A faulty variant: a thread without comments is not put in the map.
Stored_skip_empty(results, url, data) ==
    IF data.comments = <<>> THEN results
    ELSE [u \in DOMAIN results \cup {url} |-> IF u = url THEN data ELSE results[u]]
\* A faulty variant: results is rebound to a new dict holding the one entry.
Stored_last_only(results, url, data) == [u \in {url} |-> data]
Stored(results, url, data) ==
    [u \in DOMAIN results \cup {url} |-> IF u = url THEN data ELSE results[u]]

\* A faulty variant: the slot is not given back when the task ends (acquire
\* without "async with").
FetchReturn_no_release(p, i, page) ==
    LET r == get_comments_async(page) IN
    /\ pc[p] = "fetch"
    /\ i \in InFlight(p)
    /\ ~r.raised
    /\ comments_data' = [comments_data EXCEPT
                            ![p] = Stored(@, blueprints[p][i].url, r.data)]
    /\ task' = [task EXCEPT ![p][i] = IF r.degraded THEN "degraded" ELSE "ok"]
    /\ UNCHANGED <<clock, pc, err, user_url, snapshot_ts, blueprints, idx, sem,
                   writer, tx, tables, deleted, ndel>>

\* get_comments_async returns: the result is stored under the blueprint's url
\* and the slot is released.
FetchReturn(p, i, page) ==
    LET r == get_comments_async(page) IN
    /\ pc[p] = "fetch"
    /\ i \in InFlight(p)
    /\ ~r.raised
    /\ comments_data' = [comments_data EXCEPT
                            ![p] = Stored(@, blueprints[p][i].url, r.data)]
    /\ task' = [task EXCEPT ![p][i] = IF r.degraded THEN "degraded" ELSE "ok"]
    /\ sem' = [sem EXCEPT ![p] = @ + 1]
    /\ UNCHANGED <<clock, pc, err, user_url, snapshot_ts, blueprints, idx,
                   writer, tx, tables, deleted, ndel>>

\* get_comments_async raises: gather (return_exceptions is not set) raises it
\* to _run, asyncio.run cancels the other tasks, take_snapshot has no handler.
FetchRaise(p, i, page) ==
    /\ pc[p] = "fetch"
    /\ i \in InFlight(p)
    /\ get_comments_async(page).raised
    /\ Leave(p, "failed", "PWAsyncTimeout")
    /\ UNCHANGED <<clock, writer, tx, tables, deleted, ndel>>

\* A faulty variant: gather returns once every task has started.
AllFetched_all_started(p) == \A i \in 1..Len(task[p]) : task[p][i] # "queued"
AllFetched(p) == \A i \in 1..Len(task[p]) : task[p][i] \in {"ok", "degraded"}

\* gather returns when every task has; _run returns results and asyncio.run
\* closes the loop: the tasks and the semaphore are gone.
GatherReturn(p) ==
    /\ pc[p] = "fetch"
    /\ AllFetched(p)
    /\ pc' = [pc EXCEPT ![p] = "atomic"]
    /\ task' = [task EXCEPT ![p] = <<>>]
    /\ sem' = [sem EXCEPT ![p] = 0]
    /\ UNCHANGED <<clock, err, user_url, snapshot_ts, blueprints,
                   comments_data, idx, writer, tx, tables, deleted, ndel>>

\* ------------------------------------------------------------------ models

\* UserSnapshot.Meta: unique_together = ('snapshot_ts', 'user_url')
\* A faulty variant: the pair is not declared unique.
UserSnapshotExists_never(rows, ts, user) == FALSE
UserSnapshotExists(rows, ts, user) ==
    \E i \in 1..Len(rows) : rows[i].snapshot_ts = ts /\ rows[i].user_url = user

\* BlueprintSnapshot.Meta: unique_together = ('snapshot_ts', 'blueprint')
\* A faulty variant: the pair is not declared unique.
BlueprintSnapshotExists_never(rows, ts, url) == FALSE
BlueprintSnapshotExists(rows, ts, url) ==
    \E i \in 1..Len(rows) : rows[i].snapshot_ts = ts /\ rows[i].blueprint = url

\* CommentSnapshot.Meta: unique_together = ('snapshot_ts', 'blueprint', 'comment_id')
CommentSnapshotExists(rows, ts, url, cid) ==
    \E i \in 1..Len(rows) :
        /\ rows[i].snapshot_ts = ts
        /\ rows[i].blueprint = url
        /\ rows[i].comment_id = cid

\* transaction.atomic(): what a table holds once the block is left normally
\* (COMMIT) and once it is left by an exception (ROLLBACK).
Committed(rows, pending) == rows \o pending
\* A faulty variant: every statement commits by itself (no atomic block), so
\* the rows written before the exception stay.
RolledBack_autocommit(rows, pending) == rows \o pending
RolledBack(rows, pending) == rows

\* ------------------------------------------- take_snapshot: the transaction

\* Blueprint.objects.get_or_create(url=bp['url'], defaults={'name': ...}): the
\* pending Blueprint rows after it. A row with the url is returned as it is.
\* A faulty variant: create() in the place of get_or_create(), on a url
\* column that is not declared unique.
get_or_create_always(rows, pending, url, name) ==
    Append(pending, [url |-> url, name |-> name])
get_or_create(rows, pending, url, name) ==
    IF \E i \in 1..Len(rows \o pending) : (rows \o pending)[i].url = url
    THEN pending
    ELSE Append(pending, [url |-> url, name |-> name])

\* BlueprintSnapshot.objects.create(...): create() saves the row without
\* full_clean(), so the MinValueValidator(0) of favourites and total_comments
\* is not run.
BlueprintSnapshotRow(ts, bp, c_info) ==
    [snapshot_ts |-> ts, blueprint |-> bp.url, name |-> bp.name,
     favourites |-> bp.favorites, total_comments |-> c_info.total_comments]

\* A faulty variant: the loop over the comments stops after the first.
CreateComments_first_only(rows, pending, ts, url, comments) ==
    IF comments = <<>> THEN [ok |-> TRUE, rows |-> pending]
    ELSE IF CommentSnapshotExists(rows \o pending, ts, url, Head(comments))
    THEN [ok |-> FALSE, rows |-> pending]
    ELSE [ok |-> TRUE,
          rows |-> Append(pending, [snapshot_ts |-> ts, blueprint |-> url,
                                    comment_id |-> Head(comments)])]

\* "for c in c_info.get('comments', [])": CommentSnapshot.objects.create for
\* each; ok is FALSE when a create meets a row with its key (IntegrityError).
RECURSIVE CreateComments(_, _, _, _, _)
CreateComments(rows, pending, ts, url, comments) ==
    IF comments = <<>> THEN [ok |-> TRUE, rows |-> pending]
    ELSE IF CommentSnapshotExists(rows \o pending, ts, url, Head(comments))
    THEN [ok |-> FALSE, rows |-> pending]
    ELSE CreateComments(rows,
                        Append(pending, [snapshot_ts |-> ts, blueprint |-> url,
                                         comment_id |-> Head(comments)]),
                        ts, url, Tail(comments))

\* comments_data.get(bp['url'], {"total_comments": 0, "comments": []})
CInfo(results, url) == IF url \in DOMAIN results THEN results[url] ELSE EmptyThread

\* A faulty variant: get_or_create runs before the atomic block, so the
\* Blueprint rows it created stay when the block rolls back.
Abort_keep_blueprints(p, e) ==
    /\ Leave(p, "failed", e)
    /\ writer' = NoProc
    /\ tx' = NoTx
    /\ Blueprint' = Blueprint \o tx.Blueprint
    /\ UserSnapshot' = RolledBack(UserSnapshot, tx.UserSnapshot)
    /\ BlueprintSnapshot' = RolledBack(BlueprintSnapshot, tx.BlueprintSnapshot)
    /\ CommentSnapshot' = RolledBack(CommentSnapshot, tx.CommentSnapshot)
    /\ UNCHANGED <<clock, deleted, ndel>>

\* The block is left by an exception: ROLLBACK, and take_snapshot raises it.
Abort(p, e) ==
    /\ Leave(p, "failed", e)
    /\ writer' = NoProc
    /\ tx' = NoTx
    /\ Blueprint' = RolledBack(Blueprint, tx.Blueprint)
    /\ UserSnapshot' = RolledBack(UserSnapshot, tx.UserSnapshot)
    /\ BlueprintSnapshot' = RolledBack(BlueprintSnapshot, tx.BlueprintSnapshot)
    /\ CommentSnapshot' = RolledBack(CommentSnapshot, tx.CommentSnapshot)
    /\ UNCHANGED <<clock, deleted, ndel>>

\* "with transaction.atomic():" and UserSnapshot.objects.create(...): the
\* first write takes the write lock.
BeginTx(p) ==
    /\ pc[p] = "atomic"
    /\ writer = NoProc
    /\ IF UserSnapshotExists(UserSnapshot, snapshot_ts[p], user_url[p])
       THEN Abort(p, "IntegrityError")
       ELSE /\ pc' = [pc EXCEPT ![p] = "persist"]
            /\ writer' = p
            /\ tx' = [NoTx EXCEPT !.UserSnapshot =
                        <<[snapshot_ts |-> snapshot_ts[p], user_url |-> user_url[p]]>>]
            /\ idx' = [idx EXCEPT ![p] = 1]
            /\ UNCHANGED <<clock, err, user_url, snapshot_ts, blueprints, task, sem,
                           comments_data, tables, deleted, ndel>>

\* One round of "for bp in blueprints": get_or_create, the BlueprintSnapshot
\* row, the CommentSnapshot rows.
PersistItem(p) ==
    /\ pc[p] = "persist"
    /\ writer = p
    /\ idx[p] <= Len(blueprints[p])
    /\ LET bp == blueprints[p][idx[p]]
           ts == snapshot_ts[p]
           c_info == CInfo(comments_data[p], bp.url)
           cs == CreateComments(CommentSnapshot, tx.CommentSnapshot, ts, bp.url,
                                c_info.comments)
       IN IF \/ BlueprintSnapshotExists(BlueprintSnapshot \o tx.BlueprintSnapshot,
                                        ts, bp.url)
             \/ ~cs.ok
          THEN Abort(p, "IntegrityError")
          ELSE /\ tx' = [tx EXCEPT
                    !.Blueprint = get_or_create(Blueprint, @, bp.url, bp.name),
                    !.BlueprintSnapshot = Append(@, BlueprintSnapshotRow(ts, bp, c_info)),
                    !.CommentSnapshot = cs.rows]
               /\ idx' = [idx EXCEPT ![p] = @ + 1]
               /\ UNCHANGED <<clock, pc, err, user_url, snapshot_ts, blueprints, task,
                              sem, comments_data, writer, tables, deleted, ndel>>

\* The loop is over and the block is left: COMMIT, take_snapshot returns.
Commit(p) ==
    /\ pc[p] = "persist"
    /\ writer = p
    /\ idx[p] > Len(blueprints[p])
    /\ Leave(p, "done", "")
    /\ writer' = NoProc
    /\ tx' = NoTx
    /\ Blueprint' = Committed(Blueprint, tx.Blueprint)
    /\ UserSnapshot' = Committed(UserSnapshot, tx.UserSnapshot)
    /\ BlueprintSnapshot' = Committed(BlueprintSnapshot, tx.BlueprintSnapshot)
    /\ CommentSnapshot' = Committed(CommentSnapshot, tx.CommentSnapshot)
    /\ UNCHANGED <<clock, deleted, ndel>>

\* The database fails a statement of the block (disk, lock timeout): the
\* exception leaves the block.
StorageFault(p) ==
    /\ pc[p] = "persist"
    /\ writer = p
    /\ Abort(p, "OperationalError")

\* ---------------------------------------------------------- delete_snapshot

\* --timestamp: a string fromisoformat rejects, a naive timestamp, or one with
\* a UTC offset (local reading, offset).
DeleteArgs ==
    [kind : {"invalid"}]
    \cup [kind : {"naive"}, local : 1..MaxClock]
    \cup [kind : {"aware"}, local : 1..MaxClock, offset : 0..1]

\* datetime.fromisoformat(ts_str); a naive value is taken as UTC. The instant
\* an aware value names is its local reading less its offset.
ParseTimestamp(arg) ==
    IF arg.kind = "naive" THEN arg.local ELSE arg.local - arg.offset

\* Model.objects.filter(snapshot_ts=snapshot_ts) and what it leaves behind.
AtInstant(rows, ts) == SelectSeq(rows, LAMBDA r : r.snapshot_ts = ts)
\* A faulty variant: filter(snapshot_ts__lte=snapshot_ts) is what is deleted.
NotAtInstant_after(rows, ts) == SelectSeq(rows, LAMBDA r : r.snapshot_ts > ts)
NotAtInstant(rows, ts) == SelectSeq(rows, LAMBDA r : r.snapshot_ts # ts)

\* Command.handle: CommandError for a bad timestamp; otherwise the three
\* deletes in one transaction, and the three counts.
Delete(arg) ==
    /\ ndel < MaxDeletes
    /\ writer = NoProc
    /\ ndel' = ndel + 1
    /\ IF arg.kind = "invalid"
       THEN /\ deleted' = [NoDelete EXCEPT !.status = "CommandError"]
            /\ UNCHANGED tables
       ELSE LET ts == ParseTimestamp(arg) IN
            /\ deleted' = [status |-> "ok", snapshot_ts |-> ts,
                           comments |-> Len(AtInstant(CommentSnapshot, ts)),
                           blueprints |-> Len(AtInstant(BlueprintSnapshot, ts)),
                           users |-> Len(AtInstant(UserSnapshot, ts))]
            /\ CommentSnapshot' = NotAtInstant(CommentSnapshot, ts)
            /\ BlueprintSnapshot' = NotAtInstant(BlueprintSnapshot, ts)
            /\ UserSnapshot' = NotAtInstant(UserSnapshot, ts)
            /\ UNCHANGED Blueprint
    /\ UNCHANGED <<clock, locals, writer, tx>>

\* ------------------------------------------------------------------ queries

\* list_snapshots(user_url=None): "if user_url:" is false for None and "".
NoUser == ""

\* MaxReportClock bounds the instants of SpecReport; an instant's calendar
\* date (snapshot_ts__date): two instants to a day.
MaxReportClock == 3
DayOf(ts) == (ts + 1) \div 2

\* list_snapshots: order_by('snapshot_ts').values_list('snapshot_ts', flat=True)
list_snapshots(user) ==
    LET qs == IF user # NoUser
              THEN SelectSeq(UserSnapshot, LAMBDA r : r.user_url = user)
              ELSE UserSnapshot
    IN SortSeq([i \in 1..Len(qs) |-> qs[i].snapshot_ts], LAMBDA a, b : a < b)

\* qs.latest('snapshot_ts') and qs.order_by('-snapshot_ts').first(): the row
\* of qs with the greatest instant.
LatestOf(qs) ==
    CHOOSE r \in {qs[i] : i \in 1..Len(qs)} :
        \A i \in 1..Len(qs) : qs[i].snapshot_ts <= r.snapshot_ts

\* get_latest_blueprints: [] for a user without snapshots, otherwise the
\* queryset BlueprintSnapshot.objects.filter(snapshot_ts=latest_ts), which has
\* no order: the set of its rows.
get_latest_blueprints(user) ==
    LET qs == SelectSeq(UserSnapshot, LAMBDA r : r.user_url = user)
    IN IF qs = <<>> THEN {}
       ELSE {BlueprintSnapshot[i] : i \in
                {j \in 1..Len(BlueprintSnapshot) :
                    BlueprintSnapshot[j].snapshot_ts = LatestOf(qs).snapshot_ts}}

\* --start-date, --end-date: a string strptime("%Y-%m-%d") rejects, or a date.
ReportDates == [kind : {"invalid"}] \cup [kind : {"date"}, day : 1..DayOf(MaxReportClock)]

\* UserSnapshot.objects.filter(user_url=user_url, snapshot_ts__date=date)
\* A faulty variant: the filter on user_url is left out.
SnapshotsOn_any_user(user, day) ==
    SelectSeq(UserSnapshot, LAMBDA r : DayOf(r.snapshot_ts) = day)
SnapshotsOn(user, day) ==
    SelectSeq(UserSnapshot, LAMBDA r : r.user_url = user /\ DayOf(r.snapshot_ts) = day)

\* start_snapshot_qs.first().snapshot_ts of the queryset ordered by
\* '-snapshot_ts' (and the same for the end date).
\* A faulty variant: first() of the queryset without its order_by.
ResolveRun_unordered(user, day) == SnapshotsOn(user, day)[1].snapshot_ts
ResolveRun(user, day) == LatestOf(SnapshotsOn(user, day)).snapshot_ts

\* CommentSnapshot.objects.filter(snapshot_ts=ts, blueprint=bp).count()
CommentCount(ts, url) ==
    Cardinality({i \in 1..Len(CommentSnapshot) :
        CommentSnapshot[i].snapshot_ts = ts /\ CommentSnapshot[i].blueprint = url})

\* The orders in which a queryset without order_by can yield the rows S.
Orders(S) ==
    {s \in [1..Cardinality(S) -> S] : \A x \in S : \E i \in 1..Cardinality(S) : s[i] = x}

\* "for bp_snap in end_blueprints": the rows appended to result_rows.
\* A faulty variant: the count at the start instant is not subtracted.
RECURSIVE ResultRows_total(_, _, _)
ResultRows_total(end_blueprints, start_ts, end_ts) ==
    IF end_blueprints = <<>> THEN <<>>
    ELSE LET bp_snap == Head(end_blueprints)
             comments_at_end == CommentCount(end_ts, bp_snap.blueprint)
             rest == ResultRows_total(Tail(end_blueprints), start_ts, end_ts)
         IN IF comments_at_end > 0
            THEN <<[url |-> bp_snap.blueprint, name |-> bp_snap.name,
                    new |-> comments_at_end, total |-> comments_at_end]>> \o rest
            ELSE rest

RECURSIVE ResultRows(_, _, _)
ResultRows(end_blueprints, start_ts, end_ts) ==
    IF end_blueprints = <<>> THEN <<>>
    ELSE LET bp_snap == Head(end_blueprints)
             comments_at_start == CommentCount(start_ts, bp_snap.blueprint)
             comments_at_end == CommentCount(end_ts, bp_snap.blueprint)
             num_new_comments == comments_at_end - comments_at_start
             rest == ResultRows(Tail(end_blueprints), start_ts, end_ts)
         IN IF num_new_comments > 0
            THEN <<[url |-> bp_snap.blueprint, name |-> bp_snap.name,
                    new |-> num_new_comments, total |-> comments_at_end]>> \o rest
            ELSE rest

\* blueprints_with_new_comments: the values it can return or raise. The names
\* of the model hold no comma, so the csv rows carry them as they are.
blueprints_with_new_comments(user, start_date, end_date) ==
    IF start_date.kind = "invalid" \/ end_date.kind = "invalid"
    THEN {[kind |-> "ValueError"]}
    ELSE LET start_qs == SnapshotsOn(user, start_date.day)
             end_qs == SnapshotsOn(user, end_date.day)
         IN IF start_qs = <<>>
            THEN {[kind |-> "no_start", day |-> start_date.day]}
            ELSE IF end_qs = <<>>
            THEN {[kind |-> "no_end", day |-> end_date.day]}
            ELSE LET start_ts == ResolveRun(user, start_date.day)
                     end_ts == ResolveRun(user, end_date.day)
                     end_rows == {BlueprintSnapshot[i] : i \in
                                    {j \in 1..Len(BlueprintSnapshot) :
                                        BlueprintSnapshot[j].snapshot_ts = end_ts}}
                 IN {LET rows == ResultRows(end_blueprints, start_ts, end_ts)
                     IN IF rows = <<>> THEN [kind |-> "no_new"]
                        ELSE [kind |-> "csv", rows |-> rows]
                     : end_blueprints \in Orders(end_rows)}

\* ----------------------------------------------------------- specification

\* Spec: captures that overlap in any way, the clock, and delete_snapshot.
\* Each capture is given a listing of no card or one card, and threads of at
\* most one well-formed post.
SharedListings == {<<>>} \cup {<<card>> : card \in Cards}
SharedPages ==
    {page \in Pages :
        \/ page.kind \in {"goto_timeout", "no_iframe"}
        \/ /\ page.kind = "ok"
           /\ page.posts \in {<<>>, <<"c1">>}
           /\ page.total = Len(page.posts)}

Next ==
    \/ Tick
    \/ \E p \in SharedProcs, u \in Users : Start(p, u)
    \/ \E p \in SharedProcs, data \in SharedListings : ScrapeReturn(p, data)
    \/ \E p \in SharedProcs : ScrapeRaise(p)
    \/ \E p \in SharedProcs : \E i \in DOMAIN task[p] : Acquire(p, i)
    \/ \E p \in SharedProcs : \E i \in DOMAIN task[p], page \in SharedPages : FetchReturn(p, i, page)
    \/ \E p \in SharedProcs : \E i \in DOMAIN task[p], page \in SharedPages : FetchRaise(p, i, page)
    \/ \E p \in SharedProcs : GatherReturn(p)
    \/ \E p \in SharedProcs : BeginTx(p)
    \/ \E p \in SharedProcs : PersistItem(p)
    \/ \E p \in SharedProcs : Commit(p)
    \/ \E p \in SharedProcs : StorageFault(p)
    \/ \E arg \in DeleteArgs : Delete(arg)

Spec == Init /\ [][Next]_vars

\* SpecRun: one capture from its first line to its last, over every listing
\* of up to MaxItems cards and every page.
\* extract_blueprints takes int(favorites_raw) as it is: one listing has a
\* card whose count reads "-1".
RunListings ==
    SeqsUpTo([url : Urls, name : {"n1"}, favorites : Favs], MaxItems)
        \cup {<<[url |-> "a", name |-> "n1", favorites |-> -1]>>}

NextRun ==
    \/ Start("p1", "u1")
    \/ \E data \in RunListings : ScrapeReturn("p1", data)
    \/ ScrapeRaise("p1")
    \/ \E i \in DOMAIN task["p1"] : Acquire("p1", i)
    \/ \E i \in DOMAIN task["p1"], page \in Pages : FetchReturn("p1", i, page)
    \/ \E i \in DOMAIN task["p1"], page \in Pages : FetchRaise("p1", i, page)
    \/ GatherReturn("p1")
    \/ BeginTx("p1")
    \/ PersistItem("p1")
    \/ Commit("p1")
    \/ StorageFault("p1")

SpecRun == Init /\ [][NextRun]_vars

\* SpecFetch: the fetch phase of one capture whose listing has up to
\* MaxFetchItems cards, more than the semaphore has slots. The cards have
\* different urls, or the last repeats the url of the first.
FetchUrls == <<"a", "b", "c", "d", "e", "f", "g", "h", "i", "j">>
FetchCards(n, repeat) ==
    [i \in 1..n |-> [url |-> IF repeat /\ i = n THEN FetchUrls[1] ELSE FetchUrls[i],
                     name |-> "n1", favorites |-> 1]]
FetchListings ==
    {FetchCards(n, FALSE) : n \in 0..MaxFetchItems}
    \cup {FetchCards(n, TRUE) : n \in 2..MaxFetchItems}
FetchPages ==
    {page \in Pages :
        \/ page.kind \in {"goto_timeout", "scroll_timeout"}
        \/ page.kind = "ok" /\ page.posts = <<"c1">> /\ page.total = 1}

NextFetch ==
    \/ Start("p1", "u1")
    \/ \E data \in FetchListings : ScrapeReturn("p1", data)
    \/ \E i \in DOMAIN task["p1"] : Acquire("p1", i)
    \/ \E i \in DOMAIN task["p1"], page \in FetchPages : FetchReturn("p1", i, page)
    \/ \E i \in DOMAIN task["p1"], page \in FetchPages : FetchRaise("p1", i, page)
    \/ GatherReturn("p1")

SpecFetch == Init /\ [][NextFetch]_vars

\* SpecReport: three captures, one after the other, without faults, over
\* three instants of two days; the store states the queries are asked in.
\* The clock is read by the first line of a capture only, so it is advanced
\* between captures.
ReportListings ==
    {<<>>,
     <<[url |-> "a", name |-> "n1", favorites |-> 1]>>,
     <<[url |-> "a", name |-> "n2", favorites |-> 1],
       [url |-> "b", name |-> "n1", favorites |-> 1]>>}
ReportPages ==
    {page \in Pages :
        /\ page.kind = "ok"
        /\ page.posts \in {<<>>, <<"c1">>, <<"c1", "noid">>}
        /\ page.total = (IF page.posts = <<>> THEN 0 ELSE 1)}

\* Time passes, up to MaxReportClock.
TickReport ==
    /\ clock < MaxReportClock
    /\ clock' = clock + 1
    /\ UNCHANGED <<locals, writer, tx, tables, deleted, ndel>>

\* No capture is between its first line and its last.
Quiet == \A p \in Procs : pc[p] \in {"idle", "done", "failed"}

NextReport ==
    \/ Quiet /\ TickReport
    \/ Start("p1", "u1")
    \/ \E u \in Users : pc["p1"] \in {"done", "failed"} /\ Start("p2", u)
    \/ \E u \in Users : pc["p2"] \in {"done", "failed"} /\ Start("p3", u)
    \/ \E p \in Procs, data \in ReportListings : ScrapeReturn(p, data)
    \/ \E p \in Procs : \E i \in DOMAIN task[p] : Acquire(p, i)
    \/ \E p \in Procs : \E i \in DOMAIN task[p], page \in ReportPages : FetchReturn(p, i, page)
    \/ \E p \in Procs : GatherReturn(p)
    \/ \E p \in Procs : BeginTx(p)
    \/ \E p \in Procs : PersistItem(p)
    \/ \E p \in Procs : Commit(p)

SpecReport == Init /\ [][NextReport]_vars

\* SpecCap: the fetch phase of one capture under every value 1..MaxCap of
\* SNAPSHOT_MAX_CONCURRENCY, with a fetcher whose result depends on the url
\* alone and that finishes without raising: a thread with one comment, a
\* scroll timeout (turned into the empty thread), a thread without comments,
\* a thread with a comment and a malformed record.
CapListings ==
    {FetchCards(n, FALSE) : n \in 0..MaxCapItems}
    \cup {FetchCards(n, TRUE) : n \in 2..MaxCapItems}
PageOf(url) ==
    CASE url = "a" -> [kind |-> "ok", total |-> 1, posts |-> <<"c1">>]
      [] url = "b" -> [kind |-> "scroll_timeout"]
      [] url = "c" -> [kind |-> "ok", total |-> 0, posts |-> <<>>]
      [] OTHER -> [kind |-> "ok", total |-> 1, posts |-> <<"c1", "malformed">>]

\* get_comments_async(url) of task i returns.
CapFetchReturn(i) ==
    /\ i \in DOMAIN task["p1"]
    /\ FetchReturn("p1", i, PageOf(blueprints["p1"][i].url))

NextCap ==
    \/ Start("p1", "u1")
    \/ \E data \in CapListings, cap \in 1..MaxCap : ScrapeReturnCap("p1", data, cap)
    \/ \E i \in DOMAIN task["p1"] : Acquire("p1", i)
    \/ \E i \in 1..MaxCapItems : CapFetchReturn(i)
    \/ GatherReturn("p1")

SpecCap == Init /\ [][NextCap]_vars

\* The event loop runs every callback that is ready, in the order it became
\* ready: a task that can take a slot takes it, and gather returns once it
\* can.
LoopFairness ==
    /\ \A i \in 1..MaxCapItems : WF_vars(Acquire("p1", i))
    /\ WF_vars(GatherReturn("p1"))

\* SpecCapFair: moreover every call of get_comments_async returns.
SpecCapFair ==
    /\ SpecCap
    /\ LoopFairness
    /\ \A i \in 1..MaxCapItems : WF_vars(CapFetchReturn(i))

\* SpecCapSlow: the event loop alone; which calls of get_comments_async return
\* is left open.
SpecCapSlow == SpecCap /\ LoopFairness

\* SpecLatest: three captures that can run at the same time, without faults;
\* each lists no item or one, whose thread has no comment.
LatestListings ==
    {<<>>} \cup {<<[url |-> u, name |-> "n1", favorites |-> 1]>> : u \in Urls}
LatestPage == [kind |-> "ok", total |-> 0, posts |-> <<>>]

NextLatest ==
    \/ Tick
    \/ \E p \in Procs, u \in Users : Start(p, u)
    \/ \E p \in Procs, data \in LatestListings : ScrapeReturn(p, data)
    \/ \E p \in Procs : \E i \in DOMAIN task[p] : Acquire(p, i)
    \/ \E p \in Procs : \E i \in DOMAIN task[p] : FetchReturn(p, i, LatestPage)
    \/ \E p \in Procs : GatherReturn(p)
    \/ \E p \in Procs : BeginTx(p)
    \/ \E p \in Procs : PersistItem(p)
    \/ \E p \in Procs : Commit(p)

SpecLatest == Init /\ [][NextLatest]_vars

\* ------------------------------------------------------------------ claims

IsPrefix(s, t) == Len(s) <= Len(t) /\ SubSeq(t, 1, Len(s)) = s
Added(s, t) == SubSeq(t, Len(s) + 1, Len(t))

\* The comments the fetch phase handed over for the first n listed items.
RECURSIVE FetchedComments(_, _)
FetchedComments(p, n) ==
    IF n = 0 THEN 0
    ELSE FetchedComments(p, n - 1)
         + Len(CInfo(comments_data[p], blueprints[p][n].url).comments)

\* The step is the COMMIT of capture p and adds every row of the capture: its
\* run row, a row for each listed item in listing order, a row for each
\* comment handed over, all at the capture's instant.
AllRowsAppear(p) ==
    LET ts == snapshot_ts[p]
        items == Added(BlueprintSnapshot, BlueprintSnapshot')
        comments == Added(CommentSnapshot, CommentSnapshot')
    IN /\ pc[p] = "persist" /\ pc'[p] = "done"
       /\ IsPrefix(UserSnapshot, UserSnapshot')
       /\ IsPrefix(BlueprintSnapshot, BlueprintSnapshot')
       /\ IsPrefix(CommentSnapshot, CommentSnapshot')
       /\ Added(UserSnapshot, UserSnapshot')
            = <<[snapshot_ts |-> ts, user_url |-> user_url[p]]>>
       /\ Len(items) = Len(blueprints[p])
       /\ \A i \in 1..Len(items) :
            items[i].snapshot_ts = ts /\ items[i].blueprint = blueprints[p][i].url
       /\ Len(comments) = FetchedComments(p, Len(blueprints[p]))
       /\ \A j \in 1..Len(comments) : comments[j].snapshot_ts = ts

\* C1 (atomicity of capture): a step of the program leaves the committed run,
\* item and comment rows as they were, or it is the commit of one capture and
\* adds all of that capture's rows at once (or it is a delete_snapshot). A
\* reader therefore never sees a part of a capture; and a capture that fails,
\* at whatever point of its persistence, leaves the three tables as they were.
C1_Atomicity ==
    [][/\ \/ UNCHANGED <<UserSnapshot, BlueprintSnapshot, CommentSnapshot>>
          \/ \E p \in Procs : AllRowsAppear(p)
          \/ ndel' # ndel
       /\ \A p \in Procs :
            pc[p] # "failed" /\ pc'[p] = "failed"
                => UNCHANGED <<UserSnapshot, BlueprintSnapshot, CommentSnapshot>>]_vars

\* A capture failed by a storage fault after the rows of its first item were
\* written, and no row is in the tables.
C1_Witness ==
    \E p \in Procs :
        /\ pc[p] = "failed" /\ err[p] = "OperationalError"
        /\ idx[p] = 2
        /\ UserSnapshot = <<>> /\ BlueprintSnapshot = <<>> /\ CommentSnapshot = <<>>

\* C2 (completeness of a committed run): when a capture commits, the tables
\* then hold exactly one item row at its instant for every item its listing
\* returned, and exactly one comment row at its instant for every comment the
\* fetch phase returned for that item.
C2_Completeness ==
    [][\A p \in Procs :
         pc[p] = "persist" /\ pc'[p] = "done" =>
            \A i \in 1..Len(blueprints[p]) :
                LET ts == snapshot_ts[p]
                    url == blueprints[p][i].url
                    cs == CInfo(comments_data[p], url).comments
                IN /\ Cardinality({j \in 1..Len(BlueprintSnapshot') :
                          /\ BlueprintSnapshot'[j].snapshot_ts = ts
                          /\ BlueprintSnapshot'[j].blueprint = url}) = 1
                   /\ \A k \in 1..Len(cs) :
                        Cardinality({j \in 1..Len(CommentSnapshot') :
                          /\ CommentSnapshot'[j].snapshot_ts = ts
                          /\ CommentSnapshot'[j].blueprint = url
                          /\ CommentSnapshot'[j].comment_id = cs[k]}) = 1]_vars

\* A committed capture of two items, one with a thread of two comments and
\* one with none.
C2_Witness ==
    \E p \in Procs :
        /\ pc[p] = "done"
        /\ Len(BlueprintSnapshot) = 2
        /\ Len(CommentSnapshot) = 2
        /\ CommentSnapshot[1].blueprint = CommentSnapshot[2].blueprint
        /\ \A j \in 1..2 : BlueprintSnapshot[j].snapshot_ts = snapshot_ts[p]

\* C3 (per-item degradation is non-fatal): a thread fetch that fails, in
\* whatever way, yields the empty thread instead of raising, so no capture
\* ends with the exception of a thread fetch.
C3_DegradationNonFatal ==
    \A p \in Procs : ~(pc[p] = "failed" /\ err[p] = "PWAsyncTimeout")

\* C4 (listing failure is fatal): a capture whose listing call raises, or
\* returns an empty or invalid response, persists nothing; so every run row
\* in the tables has an item row of its instant (nothing is deleted here).
C4_ListingFailureFatal ==
    \A i \in 1..Len(UserSnapshot) :
        \E j \in 1..Len(BlueprintSnapshot) :
            BlueprintSnapshot[j].snapshot_ts = UserSnapshot[i].snapshot_ts

\* C5 (bounded concurrency): at every moment of the fetch phase at most
\* MAX_INSTANCES thread fetches are in flight, and the free slots and the
\* fetches in flight add up to MAX_INSTANCES, so that one more fetch starts
\* only when a running one has given its slot back.
C5_BoundedConcurrency ==
    \A p \in Procs :
        pc[p] = "fetch" =>
            /\ Cardinality(InFlight(p)) <= MAX_INSTANCES
            /\ sem[p] + Cardinality(InFlight(p)) = MAX_INSTANCES

\* MAX_INSTANCES fetches are in flight, one of them of an item beyond the
\* first MAX_INSTANCES: it waited for a slot and got the one given back.
C5_Witness ==
    \E p \in Procs :
        /\ pc[p] = "fetch"
        /\ Cardinality(InFlight(p)) = MAX_INSTANCES
        /\ \E i \in InFlight(p) : i > MAX_INSTANCES
        /\ \E i \in 1..MAX_INSTANCES : task[p][i] \in {"ok", "degraded"}

\* C6 (output of the orchestrator): when the fetch phase has returned, the
\* map it hands over has exactly one entry for each distinct url of the
\* listing and no other entry.
C6_OrchestratorOutput ==
    \A p \in Procs :
        pc[p] = "atomic" =>
            DOMAIN comments_data[p] = {blueprints[p][i].url : i \in 1..Len(blueprints[p])}

\* The fetch phase of a listing of MaxFetchItems urls has returned; one
\* thread came back empty after a failure and another with a comment.
C6_Witness ==
    \E p \in Procs :
        /\ pc[p] = "atomic"
        /\ Len(blueprints[p]) = MaxFetchItems
        /\ Cardinality(DOMAIN comments_data[p]) = MaxFetchItems
        /\ \E u, v \in DOMAIN comments_data[p] :
            /\ comments_data[p][u] = EmptyThread
            /\ comments_data[p][v].comments # <<>>

\* C7 (CaptureRun identity): no two run rows ever share the pair (instant,
\* user), and a capture that reaches its transaction when a run row with its
\* instant and its user is registered fails with the constraint's error and
\* leaves every table as it was.
C7_CaptureRunIdentity ==
    [][/\ \A i, j \in 1..Len(UserSnapshot') :
            UserSnapshot'[i] = UserSnapshot'[j] => i = j
       /\ \A p \in Procs :
            (/\ pc[p] = "atomic" /\ pc'[p] # "atomic"
             /\ \E i \in 1..Len(UserSnapshot) :
                    UserSnapshot[i] = [snapshot_ts |-> snapshot_ts[p],
                                       user_url |-> user_url[p]])
                => /\ pc'[p] = "failed" /\ err'[p] = "IntegrityError"
                   /\ UNCHANGED tables]_vars

\* A capture failed on the constraint: the run row of its instant and its
\* user was committed by the other capture, with an item row.
C7_Witness ==
    \E p \in Procs :
        /\ pc[p] = "failed" /\ err[p] = "IntegrityError"
        /\ UserSnapshot = <<[snapshot_ts |-> snapshot_ts[p], user_url |-> user_url[p]]>>
        /\ Len(BlueprintSnapshot) = 1

\* C8 (ContentItem upsert is insert-if-absent): there is never more than one
\* identity row of a url; no step changes or removes an identity row, so a
\* capture of a known url leaves the row and its name as they are; and the
\* item rows a commit adds carry the names the listing gave.
C8_ContentItemUpsert ==
    [][/\ \A i, j \in 1..Len(Blueprint') :
            Blueprint'[i].url = Blueprint'[j].url => i = j
       /\ IsPrefix(Blueprint, Blueprint')
       /\ \A p \in Procs :
            pc[p] = "persist" /\ pc'[p] = "done" =>
                \A i \in 1..Len(blueprints[p]) :
                    \E j \in 1..Len(BlueprintSnapshot') :
                        /\ BlueprintSnapshot'[j].snapshot_ts = snapshot_ts[p]
                        /\ BlueprintSnapshot'[j].blueprint = blueprints[p][i].url
                        /\ BlueprintSnapshot'[j].name = blueprints[p][i].name]_vars

\* Two captures have committed the same url under two names: the identity
\* row keeps the first name, and an item row has the second.
C8_Witness ==
    /\ Len(Blueprint) = 1
    /\ Len(BlueprintSnapshot) = 2
    /\ BlueprintSnapshot[1].blueprint = Blueprint[1].url
    /\ BlueprintSnapshot[2].blueprint = Blueprint[1].url
    /\ BlueprintSnapshot[1].name = Blueprint[1].name
    /\ BlueprintSnapshot[2].name # Blueprint[1].name

\* The run rows of an instant.
RunsAt(ts) == {i \in 1..Len(UserSnapshot) : UserSnapshot[i].snapshot_ts = ts}

\* C9 (cross-entity invariant): the instant of every item row and of every
\* comment row is the instant of exactly one run row.
C9_CrossEntity ==
    /\ \A j \in 1..Len(BlueprintSnapshot) :
        Cardinality(RunsAt(BlueprintSnapshot[j].snapshot_ts)) = 1
    /\ \A j \in 1..Len(CommentSnapshot) :
        Cardinality(RunsAt(CommentSnapshot[j].snapshot_ts)) = 1

\* C10 (deletion precision): a delete_snapshot of instant t leaves in the
\* run, item and comment tables exactly the rows of other instants, in their
\* order, reports for each table the number of its rows at t (zero where it
\* has none), and leaves the identity rows alone; a rejected timestamp
\* changes no table.
C10_DeletionPrecision ==
    [][ndel' # ndel =>
         IF deleted'.status = "ok"
         THEN LET t == deleted'.snapshot_ts IN
              /\ CommentSnapshot' = SelectSeq(CommentSnapshot, LAMBDA r : r.snapshot_ts # t)
              /\ BlueprintSnapshot' = SelectSeq(BlueprintSnapshot, LAMBDA r : r.snapshot_ts # t)
              /\ UserSnapshot' = SelectSeq(UserSnapshot, LAMBDA r : r.snapshot_ts # t)
              /\ deleted'.comments = Cardinality({i \in 1..Len(CommentSnapshot) :
                                                    CommentSnapshot[i].snapshot_ts = t})
              /\ deleted'.blueprints = Cardinality({i \in 1..Len(BlueprintSnapshot) :
                                                    BlueprintSnapshot[i].snapshot_ts = t})
              /\ deleted'.users = Cardinality({i \in 1..Len(UserSnapshot) :
                                                    UserSnapshot[i].snapshot_ts = t})
              /\ Blueprint' = Blueprint
         ELSE UNCHANGED tables]_vars

\* A delete removed the run, the item and the comment of one instant and
\* left the run, the item and the comment of an earlier one.
C10_Witness ==
    /\ deleted.status = "ok"
    /\ deleted.users = 1 /\ deleted.blueprints = 1 /\ deleted.comments = 1
    /\ Len(UserSnapshot) = 1 /\ Len(BlueprintSnapshot) = 1 /\ Len(CommentSnapshot) = 1
    /\ UserSnapshot[1].snapshot_ts < deleted.snapshot_ts
    /\ Blueprint # <<>>

StrictlyAscending(s) == \A i \in 1..(Len(s) - 1) : s[i] < s[i + 1]

\* C11 (list_runs ordering and filtering): in every state list_snapshots()
\* is a strictly ascending sequence of instants, none repeated, and
\* list_snapshots(user) is strictly ascending and holds exactly the instants
\* of the run rows of that user.
C11_ListRunsOrdering ==
    /\ StrictlyAscending(list_snapshots(NoUser))
    /\ \A u \in Users :
        /\ StrictlyAscending(list_snapshots(u))
        /\ {list_snapshots(u)[i] : i \in 1..Len(list_snapshots(u))}
            = {UserSnapshot[i].snapshot_ts : i \in
                {j \in 1..Len(UserSnapshot) : UserSnapshot[j].user_url = u}}

\* C12 (latest_state): after the commit of a capture whose instant is the
\* greatest of its user, get_latest_blueprints(user) is exactly the item rows
\* that commit wrote, without a row of another user's capture; and it is
\* empty for a user without run rows.
C12_LatestState ==
    [][/\ \A u \in Users :
            (\A i \in 1..Len(UserSnapshot') : UserSnapshot'[i].user_url # u)
                => get_latest_blueprints(u)' = {}
       /\ \A p \in Procs :
            (/\ pc[p] = "persist" /\ pc'[p] = "done"
             /\ \A i \in 1..Len(UserSnapshot) :
                    UserSnapshot[i].user_url = user_url[p]
                        => UserSnapshot[i].snapshot_ts < snapshot_ts[p])
                => get_latest_blueprints(user_url[p])'
                    = {BlueprintSnapshot'[j] : j \in
                        (Len(BlueprintSnapshot) + 1)..Len(BlueprintSnapshot')}]_vars

\* The run rows of a user on a calendar day, and the dates strptime accepts.
RunsOn(u, day) ==
    {i \in 1..Len(UserSnapshot) :
        UserSnapshot[i].user_url = u /\ DayOf(UserSnapshot[i].snapshot_ts) = day}
ValidDates == {d \in ReportDates : d.kind = "date"}

\* C13 (report run resolution): for a user with a run on a day, the instant
\* the report resolves for that day is the instant of a run row of that user
\* on that day, and no run row of the user on that day has a greater one.
C13_RunResolution ==
    \A u \in Users, d \in ValidDates :
        RunsOn(u, d.day) # {} =>
            /\ \E i \in RunsOn(u, d.day) :
                UserSnapshot[i].snapshot_ts = ResolveRun(u, d.day)
            /\ \A i \in RunsOn(u, d.day) :
                UserSnapshot[i].snapshot_ts <= ResolveRun(u, d.day)

\* A user has two runs on the first day and the other user a later run on
\* it: the later run of the user is the one resolved.
C13_Witness ==
    /\ Len(UserSnapshot) = 3
    /\ UserSnapshot[1] = [snapshot_ts |-> 1, user_url |-> "u1"]
    /\ UserSnapshot[2] = [snapshot_ts |-> 2, user_url |-> "u1"]
    /\ UserSnapshot[3] = [snapshot_ts |-> 2, user_url |-> "u2"]
    /\ ResolveRun("u1", 1) = 2

\* C14 (missing-date handling): for dates strptime accepts, a user without a
\* run on the start date gets the no-snapshot outcome naming the start date,
\* a user with a run on the start date and none on the end date gets the one
\* naming the end date, whatever runs other users have; nothing is raised.
\* The report is asked between captures: the tables change at the last step
\* of a capture only, so every store is met there.
C14_MissingDate ==
    Quiet => \A u \in Users, s \in ValidDates, e \in ValidDates :
        LET outs == blueprints_with_new_comments(u, s, e)
        IN /\ RunsOn(u, s.day) = {}
                => outs = {[kind |-> "no_start", day |-> s.day]}
           /\ RunsOn(u, s.day) # {} /\ RunsOn(u, e.day) = {}
                => outs = {[kind |-> "no_end", day |-> e.day]}
           /\ \A out \in outs : out.kind # "ValueError"

\* u1 has a run on the first day only and u2 has a run on the second day: the
\* report of u1 to the second day names the second day.
C14_Witness ==
    /\ RunsOn("u1", 1) # {} /\ RunsOn("u1", 2) = {} /\ RunsOn("u2", 2) # {}
    /\ blueprints_with_new_comments("u1", [kind |-> "date", day |-> 1],
                                    [kind |-> "date", day |-> 2])
        = {[kind |-> "no_end", day |-> 2]}

\* The greatest instant of the run rows of a user on a day.
LastInstantOn(u, day) ==
    CHOOSE t \in {UserSnapshot[i].snapshot_ts : i \in RunsOn(u, day)} :
        \A i \in RunsOn(u, day) : UserSnapshot[i].snapshot_ts <= t

\* The comment rows of an item at an instant.
CommentsAt(rows, ts, url) ==
    {i \in 1..Len(rows) : rows[i].snapshot_ts = ts /\ rows[i].blueprint = url}

\* C15 (diff correctness): when a capture commits and so becomes the end run
\* of its user for its day, then for every start date on which the user has a
\* run, the report to that day has, for each item row the end run wrote, a
\* row (url, name, count at end - count at start, count at end) if and only
\* if the difference is positive, and has no row of an item that only the
\* start run has (an item row at the start instant, which is the instant of
\* that run alone, and none among the rows the end run wrote).
C15_DiffCorrectness ==
    [][\A p \in Procs :
         pc[p] = "persist" /\ pc'[p] = "done" =>
            LET u == user_url[p]
                end_ts == snapshot_ts[p]
                e == [kind |-> "date", day |-> DayOf(end_ts)]
                written == (Len(BlueprintSnapshot) + 1)..Len(BlueprintSnapshot')
            IN \A s \in ValidDates :
                (RunsOn(u, s.day)' # {} /\ LastInstantOn(u, e.day)' = end_ts) =>
                    \A out \in blueprints_with_new_comments(u, s, e)' :
                        LET rows == IF out.kind = "csv" THEN out.rows ELSE <<>>
                            start_ts == LastInstantOn(u, s.day)'
                        IN /\ out.kind \in {"csv", "no_new"}
                           /\ \A j \in written :
                                LET r == BlueprintSnapshot'[j]
                                    at_start == Cardinality(CommentsAt(CommentSnapshot', start_ts, r.blueprint))
                                    at_end == Cardinality(CommentsAt(CommentSnapshot', end_ts, r.blueprint))
                                IN (\E k \in 1..Len(rows) :
                                        rows[k] = [url |-> r.blueprint, name |-> r.name,
                                                   new |-> at_end - at_start,
                                                   total |-> at_end])
                                    <=> at_end - at_start > 0
                           /\ \A k \in 1..Len(rows) :
                                ~ /\ \A j \in written :
                                        rows[k].url # BlueprintSnapshot'[j].blueprint
                                  /\ Cardinality({i \in 1..Len(UserSnapshot') :
                                        UserSnapshot'[i].snapshot_ts = start_ts}) = 1
                                  /\ \E j \in 1..Len(BlueprintSnapshot') :
                                        /\ BlueprintSnapshot'[j].snapshot_ts = start_ts
                                        /\ BlueprintSnapshot'[j].blueprint = rows[k].url]_vars

\* The place of a name in ascending order.
NameRank(name) == IF name = "n1" THEN 1 ELSE 2

\* C16 (report row order): the rows of every report are in ascending order of
\* item name, and a store yields one row sequence only.
C16_ReportRowOrder ==
    Quiet => \A u \in Users, s \in ValidDates, e \in ValidDates :
        LET outs == blueprints_with_new_comments(u, s, e)
        IN /\ Cardinality(outs) = 1
           /\ \A out \in outs :
                out.kind = "csv" =>
                    \A k \in 1..(Len(out.rows) - 1) :
                        NameRank(out.rows[k].name) <= NameRank(out.rows[k + 1].name)

\* A capture is between its first line and its last.
Running(p) == pc[p] \notin {"idle", "done", "failed"}

\* C17 (no single-flight per user): while a capture of a user is running, a
\* second capture of the same user can start, and in its listing and fetch
\* phases each of the two can always take its next step, whatever the other is
\* doing; it can open its transaction whenever no transaction is open.
C17_NoSingleFlight ==
    \A p \in SharedProcs :
        \A q \in SharedProcs \ {p} :
            Running(q) =>
                /\ pc[p] = "idle" => ENABLED Start(p, user_url[q])
                /\ (Running(p) /\ user_url[p] = user_url[q]) =>
                    /\ pc[p] = "scrape" => ENABLED ScrapeReturn(p, <<>>)
                    /\ pc[p] = "fetch" =>
                        ENABLED \/ GatherReturn(p)
                                \/ \E i \in DOMAIN task[p] : Acquire(p, i)
                                \/ \E i \in DOMAIN task[p] :
                                        FetchReturn(p, i, [kind |-> "no_iframe"])
                    /\ (pc[p] = "atomic" /\ writer = NoProc) => ENABLED BeginTx(p)

\* Two captures of one user have both committed, each with its item row: the
\* one that started later, at the later instant, committed first, so the two
\* ran at the same time.
C17_Witness ==
    /\ pc["p1"] = "done" /\ pc["p2"] = "done"
    /\ user_url["p1"] = user_url["p2"]
    /\ snapshot_ts["p1"] < snapshot_ts["p2"]
    /\ Len(UserSnapshot) = 2
    /\ UserSnapshot[1].snapshot_ts = snapshot_ts["p2"]
    /\ UserSnapshot[2].snapshot_ts = snapshot_ts["p1"]
    /\ Len(BlueprintSnapshot) = 2
    /\ BlueprintSnapshot[1].snapshot_ts = snapshot_ts["p2"]
    /\ BlueprintSnapshot[2].snapshot_ts = snapshot_ts["p1"]

\* C18 (malformed comment records): a record of a fetched thread without a
\* comment identifier, or with an identifier an earlier record of the thread
\* has, is skipped alone: a round of the item loop fails on a key only when
\* the item's own row is there already, it writes no comment row without an
\* identifier, and it writes a row for every identifier of the thread.
C18_MalformedAbsorbed ==
    [][\A p \in Procs :
        (pc[p] = "persist" /\ writer = p /\ idx[p] <= Len(blueprints[p])
            /\ tx' # tx) =>
            LET bp == blueprints[p][idx[p]]
                ts == snapshot_ts[p]
                comments == CInfo(comments_data[p], bp.url).comments
            IN  /\ (pc'[p] = "failed" /\ err'[p] = "IntegrityError") =>
                    BlueprintSnapshotExists(BlueprintSnapshot \o tx.BlueprintSnapshot,
                                            ts, bp.url)
                /\ pc'[p] = "persist" =>
                    /\ \A i \in 1..Len(tx'.CommentSnapshot) :
                            tx'.CommentSnapshot[i].comment_id # ""
                    /\ \A j \in 1..Len(comments) :
                            comments[j] # "" =>
                                CommentSnapshotExists(tx'.CommentSnapshot, ts, bp.url,
                                                      comments[j])
      ]_vars

\* No two rows of a table have the same key.
UniqueKeys(rows, Key(_)) ==
    \A i, j \in 1..Len(rows) : Key(rows[i]) = Key(rows[j]) => i = j

BlueprintSnapshotKey(r) == <<r.snapshot_ts, r.blueprint>>
CommentSnapshotKey(r) == <<r.snapshot_ts, r.blueprint, r.comment_id>>

\* C19 (snapshot row keys): in every state, among the committed rows and the
\* rows of the open transaction, no two BlueprintSnapshot rows have the same
\* (snapshot_ts, blueprint) and no two CommentSnapshot rows have the same
\* (snapshot_ts, blueprint, comment_id).
C19_SnapshotKeysUnique ==
    /\ UniqueKeys(BlueprintSnapshot \o tx.BlueprintSnapshot, BlueprintSnapshotKey)
    /\ UniqueKeys(CommentSnapshot \o tx.CommentSnapshot, CommentSnapshotKey)

\* A capture of one user met, in its item loop, the row another user's
\* capture of the same instant had committed for the same blueprint, and
\* failed on the key; the other's rows are the only ones at the instant.
C19_Witness ==
    \E p \in SharedProcs :
        \E q \in SharedProcs \ {p} :
            /\ pc[p] = "failed" /\ err[p] = "IntegrityError" /\ idx[p] = 1
            /\ pc[q] = "done"
            /\ user_url[p] # user_url[q]
            /\ snapshot_ts[p] = snapshot_ts[q]
            /\ Len(BlueprintSnapshot) = 1
            /\ BlueprintSnapshot[1].snapshot_ts = snapshot_ts[q]
            /\ Len(CommentSnapshot) = 1
            /\ ~UserSnapshotExists(UserSnapshot, snapshot_ts[p], user_url[p])

\* C20 (count non-negativity): every BlueprintSnapshot row, committed or
\* written in the open transaction, has favourites >= 0 and
\* total_comments >= 0.
C20_CountNonNegative ==
    LET rows == BlueprintSnapshot \o tx.BlueprintSnapshot
    IN  \A i \in 1..Len(rows) :
            rows[i].favourites >= 0 /\ rows[i].total_comments >= 0

\* C21 (phase ordering of one capture): the instant is fixed before the
\* listing call and never changes while the capture runs; a fetch task exists
\* only once the listing has returned; the transaction is reached only when
\* every fetch task has finished; in its listing and fetch phases the capture
\* holds no write transaction and its steps write nothing to the store, so
\* another capture can open its transaction and delete_snapshot can run.
C21_PhaseOrdering ==
    /\ [](\A p \in SharedProcs :
            /\ pc[p] = "scrape" => task[p] = <<>>
            /\ pc[p] \in {"scrape", "fetch"} =>
                /\ writer # p
                /\ \A q \in SharedProcs \ {p} :
                        (pc[q] = "atomic" /\ writer = NoProc) => ENABLED BeginTx(q)
                /\ (writer = NoProc /\ ndel < MaxDeletes) =>
                        ENABLED Delete([kind |-> "naive", local |-> 1]))
    /\ [][\A p \in Procs :
            /\ pc[p] \in {"scrape", "fetch", "atomic", "persist"} =>
                    snapshot_ts'[p] = snapshot_ts[p]
            /\ pc'[p] = "scrape" => pc[p] \in {"idle", "scrape"}
            /\ (pc'[p] = "fetch" /\ pc[p] # "fetch") => pc[p] = "scrape"
            /\ (pc'[p] = "atomic" /\ pc[p] # "atomic") =>
                    /\ pc[p] = "fetch"
                    /\ \A i \in 1..Len(task[p]) : task[p][i] \in {"ok", "degraded"}
            /\ (pc'[p] = "persist" /\ pc[p] # "persist") => pc[p] = "atomic"
            /\ (pc[p] \in {"scrape", "fetch"}
                    /\ (pc'[p] # pc[p] \/ task'[p] # task[p])) =>
                    UNCHANGED <<writer, tx, tables>>
         ]_vars

\* While one capture has a fetch in flight, another capture is inside its
\* transaction with item rows written.
C21_Witness ==
    \E p \in SharedProcs :
        \E q \in SharedProcs \ {p} :
            /\ pc[p] = "fetch" /\ InFlight(p) # {}
            /\ snapshot_ts[p] < clock
            /\ pc[q] = "persist" /\ writer = q
            /\ tx.BlueprintSnapshot # <<>>

\* C22 (the fetch phase terminates without starvation): when every fetch
\* returns and the loop is fair, every queued task gets a slot, a task that
\* ends gives its slot back, and the fetch phase returns.
C22_FetchTerminates ==
    /\ \A i \in 1..MaxCapItems :
            (pc["p1"] = "fetch" /\ i \in Queued("p1")) ~> (i \in InFlight("p1"))
    /\ (pc["p1"] = "fetch") ~> (pc["p1"] = "atomic")
    /\ [][\A i \in InFlight("p1") :
            (pc'["p1"] = "fetch" /\ task'["p1"][i] # "running") =>
                sem'["p1"] = sem["p1"] + 1]_vars

\* Every task of a listing longer than the cap has finished and every slot is
\* back: some task had to wait for a slot.
C22_Witness ==
    /\ pc["p1"] = "fetch"
    /\ AllFetched("p1")
    /\ InFlight("p1") = {}
    /\ sem["p1"] >= 1
    /\ sem["p1"] < Len(task["p1"])

\* The value the semaphore was created with.
CapOf(p) == sem[p] + Cardinality(InFlight(p))
Finished(p, i) == i \in DOMAIN task[p] /\ task[p][i] \in {"ok", "degraded"}

\* C23 (a slow fetch occupies only its own slot): with a cap of 2 or more,
\* whichever task s is the one whose fetch may never return, if the fetch of
\* every other task returns then every other task starts and finishes; and
\* gather does not return while a fetch is pending.
C23_SlowFetchOwnSlot ==
    /\ \A s \in 1..MaxCapItems :
        (\A i \in (1..MaxCapItems) \ {s} : WF_vars(CapFetchReturn(i))) =>
            \A i \in (1..MaxCapItems) \ {s} :
                (pc["p1"] = "fetch" /\ i \in DOMAIN task["p1"] /\ CapOf("p1") >= 2)
                    ~> (pc["p1"] # "fetch" \/ Finished("p1", i))
    /\ [][(pc["p1"] = "fetch" /\ InFlight("p1") # {}) => pc'["p1"] = "fetch"]_vars

\* The first task is still in flight, the two or more others have finished,
\* and a slot is free.
C23_Witness ==
    /\ pc["p1"] = "fetch"
    /\ Len(task["p1"]) >= 3
    /\ InFlight("p1") = {1}
    /\ \A i \in 2..Len(task["p1"]) : Finished("p1", i)
    /\ sem["p1"] >= 1

\* The urls of the listed items whose task has finished.
FinishedUrls(p) == {blueprints[p][i].url : i \in {j \in DOMAIN task[p] : Finished(p, j)}}

\* C24 (interleaving independence of the fetch result): with a fetcher whose
\* result depends on the url alone, under every cap and every completion
\* order the result map holds, for exactly the urls of the finished tasks,
\* what the fetcher gives for the url; the map the fetch phase hands over has
\* exactly the urls of the listing, so it is the same map for every order
\* and every cap, the sequential case of cap 1 included.
C24_InterleavingIndependence ==
    LET results == comments_data["p1"]
        listed == {blueprints["p1"][i].url : i \in 1..Len(blueprints["p1"])}
    IN  /\ pc["p1"] = "fetch" =>
            /\ DOMAIN results = FinishedUrls("p1")
            /\ \A u \in DOMAIN results :
                    results[u] = get_comments_async(PageOf(u)).data
        /\ pc["p1"] = "atomic" =>
            results = [u \in listed |-> get_comments_async(PageOf(u)).data]

\* The fetches complete in another order than the listing's: the results of
\* the second and third item are in the map while the first is in flight.
C24_Witness ==
    /\ pc["p1"] = "fetch"
    /\ Len(task["p1"]) >= 3
    /\ task["p1"][1] = "running"
    /\ Finished("p1", 2) /\ Finished("p1", 3)
    /\ DOMAIN comments_data["p1"] = {"b", "c"}
    /\ comments_data["p1"]["b"] = EmptyThread

\* C25 (user isolation of the report): the commit of a capture of one user
\* changes no report of another user, whatever the two dates.
C25_ReportIsolation ==
    [][\A p \in Procs :
        (pc[p] = "persist" /\ pc'[p] = "done") =>
            \A u \in Users \ {user_url[p]}, s \in ValidDates, e \in ValidDates :
                blueprints_with_new_comments(u, s, e)'
                    = blueprints_with_new_comments(u, s, e)]_vars

\* C26 (a failed capture leaves no trace): the step by which a capture fails,
\* in the listing, in a fetch or inside the transaction, leaves the four
\* tables as they were and leaves no transaction open; and the four tables
\* change only by the commit of a capture or by delete_snapshot, so a capture
\* that fails has written nothing before either.
C26_FailedCaptureNoTrace ==
    [][/\ \A p \in Procs :
            (pc[p] # "failed" /\ pc'[p] = "failed") =>
                /\ UNCHANGED tables
                /\ writer' # p
                /\ writer = p => tx' = NoTx
       /\ tables' # tables =>
            \/ \E q \in Procs : pc[q] = "persist" /\ pc'[q] = "done"
            \/ ndel' # ndel]_vars

\* A capture failed inside its transaction after get_or_create and the rows of
\* its item, while the other capture was fetching; the Blueprint table and the
\* three others are empty.
C26_Witness ==
    \E p \in SharedProcs :
        \E q \in SharedProcs \ {p} :
            /\ pc[p] = "failed" /\ err[p] \in {"OperationalError", "IntegrityError"}
            /\ idx[p] = 2
            /\ pc[q] = "fetch"
            /\ Blueprint = <<>>
            /\ UserSnapshot = <<>> /\ BlueprintSnapshot = <<>> /\ CommentSnapshot = <<>>

\* C27 (latest is decided by start order): at the commit of a capture, if its
\* user has a run row of a greater instant, get_latest_blueprints(user) stays
\* as it was; if it has none and another capture of the user with a smaller
\* instant is running or has committed, get_latest_blueprints(user) becomes
\* exactly the item rows this commit wrote.
C27_LatestByStartOrder ==
    [][\A p \in Procs :
        (pc[p] = "persist" /\ pc'[p] = "done") =>
            LET u == user_url[p]
                later == \E i \in 1..Len(UserSnapshot) :
                            /\ UserSnapshot[i].user_url = u
                            /\ UserSnapshot[i].snapshot_ts > snapshot_ts[p]
            IN  /\ later => get_latest_blueprints(u)' = get_latest_blueprints(u)
                /\ (/\ ~later
                    /\ \E q \in Procs \ {p} :
                        /\ user_url[q] = u
                        /\ Running(q) \/ pc[q] = "done"
                        /\ snapshot_ts[q] < snapshot_ts[p])
                    => get_latest_blueprints(u)'
                        = {BlueprintSnapshot'[j] : j \in
                            (Len(BlueprintSnapshot) + 1)..Len(BlueprintSnapshot')}
      ]_vars

\* C28 (same-day report is empty): for a user with a run on a day, the report
\* from that day to that day resolves one instant for both ends and is the
\* "no new comments" outcome, never a table.
C28_SameDayReportEmpty ==
    Quiet => \A u \in Users, d \in ValidDates :
        RunsOn(u, d.day) # {} =>
            blueprints_with_new_comments(u, d, d) = {[kind |-> "no_new"]}

\* A user has two runs on one day, the first without comments and the second
\* with a comment on its item, and the report of that day for that day is the
\* "no new comments" outcome.
C28_Witness ==
    /\ Quiet
    /\ Cardinality(RunsOn("u1", 1)) = 2
    /\ CommentCount(1, "a") = 0
    /\ CommentCount(2, "a") = 1
    /\ blueprints_with_new_comments("u1", [kind |-> "date", day |-> 1],
                                    [kind |-> "date", day |-> 1])
        = {[kind |-> "no_new"]}

====
